---- MODULE Spec2Model ----
(***************************************************************************)
(* Tic-tac-toe client view (src/src/App.tsx): the React component App, its *)
(* socket handlers and its three user intents, checked                     *)
(*   - alone against an arbitrary message source (Spec), and               *)
(*   - two instances against the room server described in spec.md          *)
(*     sections 3-4 (SysSpec).                                             *)
(***************************************************************************)
EXTENDS Integers, Sequences, FiniteSets, TLC

\* ------------------------------------------------------------------ values
Null == "null"
Symbols == {"X", "O"}
Other(s) == IF s = "X" THEN "O" ELSE "X"

\* Array(9).fill(null) : the board has nine cells
BoardSize == 9

\* bounds of the model
MaxIdLen == 1      \* longest room-id text typed into the input
MaxPending == 1    \* join intents emitted and not yet answered (Spec)

\* room-id texts: sequences of characters, so that trim() is computed
Chars == {" ", "a"}
RoomIds == UNION {[1..n -> Chars] : n \in 0..MaxIdLen}

RECURSIVE TrimLeft(_)
TrimLeft(s) == IF s # <<>> /\ Head(s) = " " THEN TrimLeft(Tail(s)) ELSE s
RECURSIVE TrimRight(_)
TrimRight(s) ==
  IF s # <<>> /\ s[Len(s)] = " " THEN TrimRight(SubSeq(s, 1, Len(s) - 1)) ELSE s
\* String.prototype.trim
trim(s) == TrimRight(TrimLeft(s))
\* JS truthiness of a string (the empty string is falsy) ...
TruthyText(s) == s # <<>>
\* ... and of a board cell (string | null)
TruthyCell(v) == v # Null /\ v # ""

EmptyBoard == [i \in 1..BoardSize |-> Null]
\* winnerLine?: absent is modelled as the empty sequence
NoLine == <<>>

\* useState initial values, and the handlers registered by the mount effect
\* (hSymbol is the value of `symbol` captured by the registered handlers)
InitState == [board |-> EmptyBoard, players |-> <<>>, turn |-> "X", winnerLine |-> NoLine]
InitClient ==
  [roomId |-> <<>>, joined |-> FALSE, symbol |-> Null, state |-> InitState,
   status |-> "Waiting for players...", hSymbol |-> Null]

\* ------------------------------------------------------- socket handlers
JoinedAs(s) == IF s = "X" THEN "Joined as X" ELSE "Joined as O"

onJoined(c, data) ==
  [c EXCEPT !.symbol = data.symbol, !.joined = TRUE, !.status = JoinedAs(data.symbol)]

onFull_clearsRoom(c) == [c EXCEPT !.status = "Room is full", !.roomId = <<>>]
onFull(c) == [c EXCEPT !.status = "Room is full"]

onState_keepsTurn(c, room) ==
  [c EXCEPT !.state = [room EXCEPT !.turn = c.state.turn],
            !.status = IF room.turn = c.hSymbol THEN "Your turn" ELSE "Opponent's turn"]
onState_merge(c, room) ==
  [c EXCEPT !.state = [room EXCEPT !.winnerLine =
                         IF room.winnerLine = NoLine THEN c.state.winnerLine ELSE @],
            !.status = IF room.turn = c.hSymbol THEN "Your turn" ELSE "Opponent's turn"]
onState(c, room) ==
  [c EXCEPT !.state = room,
            !.status = IF room.turn = c.hSymbol THEN "Your turn" ELSE "Opponent's turn"]

onGameOver(c, data) ==
  [c EXCEPT !.status =
     IF data.disconnected THEN "Opponent disconnected"
     ELSE IF data.winner = Null THEN "Draw!"
     ELSE IF data.winner = c.hSymbol THEN "You win!" ELSE "You lose."]

\* useEffect(..., [symbol]): cleanup socket.off(), then the handlers are
\* registered again and capture the current symbol
effect(c) == [c EXCEPT !.hSymbol = c.symbol]

\* ------------------------------------------------------------ user intents
\* each returns the sequence of messages it emits
joinRoom(c) ==
  IF TruthyText(trim(c.roomId)) THEN <<[type |-> "join", roomId |-> c.roomId]>> ELSE <<>>

play_noTurnCheck(c, idx) ==
  IF ~c.joined \/ TruthyCell(c.state.board[idx + 1])
  THEN <<>>
  ELSE <<[type |-> "play", roomId |-> c.roomId, index |-> idx, symbol |-> c.symbol]>>
play_capturedSymbol(c, idx) ==
  IF ~c.joined \/ TruthyCell(c.state.board[idx + 1]) \/ c.state.turn # c.symbol
  THEN <<>>
  ELSE <<[type |-> "play", roomId |-> c.roomId, index |-> idx, symbol |-> c.hSymbol]>>
play(c, idx) ==
  IF ~c.joined \/ TruthyCell(c.state.board[idx + 1]) \/ c.state.turn # c.symbol
  THEN <<>>
  ELSE <<[type |-> "play", roomId |-> c.roomId, index |-> idx, symbol |-> c.symbol]>>

reset(c) == <<[type |-> "reset", roomId |-> c.roomId]>>

\* what the render shows: the join form while !joined, the board afterwards
FormShown_always(c) == TRUE
FormShown(c) == ~c.joined
BoardShown(c) == c.joined

\* ================================================================ Spec
\* one client against an arbitrary message source
VARIABLES client, ev, pending, joinedRoom, granted
\* two clients and the room server (SysSpec)
VARIABLES cls, conn, inbox, toServer, sess, registry, gotDisc, lastPlay, disc, resets

cliVars == <<client, ev, pending, joinedRoom, granted>>
sysVars == <<cls, conn, inbox, toServer, sess, registry, gotDisc, lastPlay, disc, resets>>
vars == <<cliVars, sysVars>>

Clients == {1, 2}
NoSession == [bound |-> FALSE, roomId |-> <<>>, symbol |-> Null]
NoPlay == [by |-> Null, ongoing |-> FALSE, reset |-> FALSE]
NoDisc == [phase |-> "none", rejected |-> FALSE]

CliInit ==
  /\ client = InitClient
  /\ ev = [kind |-> "init", arg |-> <<>>, out |-> <<>>]
  /\ pending = <<>>
  /\ joinedRoom = <<>>
  /\ granted = Null

SysInit ==
  /\ cls = [c \in Clients |-> InitClient]
  /\ conn = [c \in Clients |-> TRUE]
  /\ inbox = [c \in Clients |-> <<>>]
  /\ toServer = [c \in Clients |-> <<>>]
  /\ sess = [c \in Clients |-> NoSession]
  /\ registry = <<>>
  /\ gotDisc = [c \in Clients |-> FALSE]
  /\ lastPlay = NoPlay
  /\ disc = NoDisc
  /\ resets = 0

\* the room states the message source sends: a few boards of nine cells
Boards ==
  {EmptyBoard, [EmptyBoard EXCEPT ![1] = "X"], [EmptyBoard EXCEPT ![1] = "O", ![5] = "X"]}
RoomStates ==
  [board : Boards, players : {<<"p1", "p2">>}, turn : Symbols,
   winnerLine : {NoLine, <<0, 1, 2>>}]

Event(k, a, o) == [kind |-> k, arg |-> a, out |-> o]

Init == CliInit /\ SysInit

\* onChange of the room-id input (rendered in the join form only)
SetRoomId(v) ==
  /\ FormShown(client)
  /\ client' = [client EXCEPT !.roomId = v]
  /\ ev' = Event("setRoomId", v, <<>>)
  /\ UNCHANGED <<pending, joinedRoom, granted, sysVars>>

\* click on "Join Game"
ClickJoin ==
  /\ FormShown(client)
  /\ Len(pending) + Len(joinRoom(client)) <= MaxPending
  /\ ev' = Event("joinRoom", <<>>, joinRoom(client))
  /\ pending' = pending \o [i \in 1..Len(joinRoom(client)) |-> joinRoom(client)[i].roomId]
  /\ UNCHANGED <<client, joinedRoom, granted, sysVars>>

\* click on cell idx of the rendered board
ClickCell(idx) ==
  /\ BoardShown(client)
  /\ idx + 1 \in DOMAIN client.state.board
  /\ ev' = Event("play", idx, play(client, idx))
  /\ UNCHANGED <<client, pending, joinedRoom, granted, sysVars>>

\* click on "Reset"
ClickReset ==
  /\ BoardShown(client)
  /\ ev' = Event("reset", <<>>, reset(client))
  /\ UNCHANGED <<client, pending, joinedRoom, granted, sysVars>>

\* the server answers the oldest unanswered join with joined{symbol}
RecvJoined(s) ==
  /\ pending # <<>>
  /\ client' = onJoined(client, [symbol |-> s])
  /\ ev' = Event("joined", s, <<>>)
  /\ joinedRoom' = <<Head(pending)>>
  /\ granted' = s
  /\ pending' = Tail(pending)
  /\ UNCHANGED sysVars

\* ... or with full{}
RecvFull ==
  /\ pending # <<>>
  /\ client' = onFull(client)
  /\ ev' = Event("full", <<>>, <<>>)
  /\ pending' = Tail(pending)
  /\ UNCHANGED <<joinedRoom, granted, sysVars>>

RecvState(room) ==
  /\ client' = onState(client, room)
  /\ ev' = Event("state", room, <<>>)
  /\ UNCHANGED <<pending, joinedRoom, granted, sysVars>>

RecvGameOver(w, d) ==
  /\ client' = onGameOver(client, [winner |-> w, disconnected |-> d])
  /\ ev' = Event("gameOver", <<w, d>>, <<>>)
  /\ UNCHANGED <<pending, joinedRoom, granted, sysVars>>

\* the effect keyed on [symbol] re-runs some time after symbol changed; no
\* assumption is made here on how soon
RunEffect ==
  /\ client.hSymbol # client.symbol
  /\ client' = effect(client)
  /\ ev' = Event("effect", <<>>, <<>>)
  /\ UNCHANGED <<pending, joinedRoom, granted, sysVars>>

Next ==
  \/ \E v \in RoomIds : SetRoomId(v)
  \/ ClickJoin
  \/ \E idx \in 0..(BoardSize - 1) : ClickCell(idx)
  \/ ClickReset
  \/ \E s \in Symbols : RecvJoined(s)
  \/ RecvFull
  \/ \E room \in RoomStates : RecvState(room)
  \/ \E w \in Symbols \cup {Null}, d \in BOOLEAN : RecvGameOver(w, d)
  \/ RunEffect

Spec == Init /\ [][Next]_vars

\* ------------------------------------------------------ claims under Spec
Emitted == {ev.out[i] : i \in DOMAIN ev.out}

\* C1: play(idx) emits a play intent exactly when the client has joined, the
\* held turn is the client's own symbol and the held cell idx is empty; in
\* every other case it emits nothing.
C1_PlayGuard ==
  ev.kind = "play" =>
    /\ ev.out # <<>> <=>
         /\ client.joined
         /\ client.state.turn = client.symbol
         /\ client.state.board[ev.arg + 1] = Null
    /\ \A m \in Emitted : m.type = "play" /\ m.index = ev.arg
C1_Witness ==
  /\ ev.kind = "play" /\ ev.out # <<>>
  /\ client.state.board # EmptyBoard

\* C2: every emitted play claims a symbol that is X or O and equals the
\* symbol carried by the most recent joined message.
C2_PlaySymbolGranted ==
  \A m \in Emitted : m.type = "play" => m.symbol \in Symbols /\ m.symbol = granted
C2_Witness ==
  /\ ev.kind = "play" /\ ev.out # <<>>
  /\ granted = "O" /\ ev.out[1].symbol = "O"

\* C3: no join is emitted once a joined message has been received, no play
\* or reset before one has been received, and nothing else is ever emitted.
C3_SessionBinding ==
  \A m \in Emitted :
    /\ m.type \in {"join", "play", "reset"}
    /\ m.type = "join" => granted = Null
    /\ m.type \in {"play", "reset"} => granted # Null
C3_Witness == ev.kind = "reset" /\ ev.out # <<>> /\ granted # Null

C4_Step ==
  /\ ev'.kind = "full" =>
       /\ client' = [client EXCEPT !.status = "Room is full"]
       /\ ~client.joined => FormShown(client')
  /\ (client'.status = "Room is full" /\ client.status # "Room is full")
       => ev'.kind = "full"
\* C4: full sets the status to 'Room is full' and changes nothing else, an
\* un-joined client stays un-joined with the join form shown, and no other
\* event produces that status.
C4_FullIsLocal == [][C4_Step]_vars
C4_Witness ==
  /\ ev.kind = "full" /\ ~client.joined /\ client.status = "Room is full"
  /\ TruthyText(trim(client.roomId))

C5_Step ==
  /\ ev'.kind \in {"joinRoom", "play", "reset"} =>
       /\ client'.state = client.state
       /\ client'.symbol = client.symbol
       /\ client'.joined = client.joined
  /\ client'.state # client.state => ev'.kind = "state"
  /\ ev'.kind = "state" => client'.state = ev'.arg
\* C5: joinRoom, play and reset leave the held state, symbol and joined
\* unchanged; the held board/players/turn/winnerLine change only on a state
\* message and are then exactly the received values.
C5_ThinConsumer == [][C5_Step]_vars
C5_Witness ==
  /\ ev.kind = "state" /\ client.state = ev.arg
  /\ client.state.board # EmptyBoard /\ client.state.winnerLine = NoLine

GameOverStatus(w, d, own) ==
  IF d THEN "Opponent disconnected"
  ELSE IF w = Null THEN "Draw!"
  ELSE IF w = own THEN "You win!" ELSE "You lose."
\* C8: gameOver{winner, disconnected} sets the status by fixed precedence
\* (disconnected, draw, own symbol wins, otherwise lose) and leaves the held
\* board, turn and symbol unchanged.
C8_GameOverStatus ==
  [][ev'.kind = "gameOver" =>
       /\ client'.status = GameOverStatus(ev'.arg[1], ev'.arg[2], client.symbol)
       /\ client'.state = client.state
       /\ client'.symbol = client.symbol]_vars

\* C9: once joined{symbol: s} has been received, every received state message
\* with turn t leaves the status 'Your turn' if t = s and "Opponent's turn"
\* otherwise.
C9_TurnStatus ==
  [][(ev'.kind = "state" /\ granted # Null) =>
       client'.status =
         IF ev'.arg.turn = granted THEN "Your turn" ELSE "Opponent's turn"]_vars

\* C10: every emitted play and reset carries the room id of the join that
\* the server answered with joined.
C10_RoomIdBound ==
  \A m \in Emitted : m.type \in {"play", "reset"} => joinedRoom = <<m.roomId>>

\* ============================================================== SysSpec
\* The room server. Its code is not part of the client repository: Board
\* Model, Room, Room Registry and Session Gateway follow spec.md 3, 4, 6.

\* bounds of the system model
MaxInbox == 2      \* server-to-client messages in flight per client
MaxResets == 1     \* reset intents emitted in a run
\* the cells the users click: enough for X to win on the first row
ClickCells == {0, 1, 2, 3, 4}

SysRoomId == <<"a">>
Pid(c) == IF c = 1 THEN "p1" ELSE "p2"

\* ---- Board Model (4.1)
WinLines ==
  << <<0, 1, 2>>, <<3, 4, 5>>, <<6, 7, 8>>, <<0, 3, 6>>, <<1, 4, 7>>, <<2, 5, 8>>,
     <<0, 4, 8>>, <<2, 4, 6>> >>
InRange(index) == index \in 0..(BoardSize - 1)
applyMoveOk(board, index) == InRange(index) /\ board[index + 1] = Null
applyMove(board, index, symbol) == [board EXCEPT ![index + 1] = symbol]
LineWon(board, l) ==
  /\ board[l[1] + 1] # Null
  /\ board[l[1] + 1] = board[l[2] + 1]
  /\ board[l[1] + 1] = board[l[3] + 1]
evaluate(board) ==
  LET won == {i \in DOMAIN WinLines : LineWon(board, WinLines[i])} IN
  IF won # {}
  THEN LET first == CHOOSE i \in won : \A j \in won : i <= j IN
       [kind |-> "win", symbol |-> board[WinLines[first][1] + 1], line |-> WinLines[first]]
  ELSE IF \A i \in DOMAIN board : board[i] # Null
  THEN [kind |-> "draw", symbol |-> Null, line |-> NoLine]
  ELSE [kind |-> "ongoing", symbol |-> Null, line |-> NoLine]

\* ---- Room (3, 4.2)
NewRoom ==
  [board |-> EmptyBoard, players |-> <<>>, turn |-> "X", winnerLine |-> NoLine,
   status |-> "WaitingForPlayers"]

\* the first joiner is X, the second O
SymbolOf(r, pid) ==
  IF Len(r.players) >= 1 /\ r.players[1] = pid THEN "X"
  ELSE IF Len(r.players) >= 2 /\ r.players[2] = pid THEN "O"
  ELSE Null

RoomJoin(r, pid) ==
  IF Len(r.players) >= 2 THEN [room |-> r, res |-> "RoomFull"]
  ELSE LET ps == Append(r.players, pid) IN
       [room |-> [r EXCEPT !.players = ps,
                           !.status = IF Len(ps) = 2 /\ @ = "WaitingForPlayers"
                                      THEN "InProgress" ELSE @],
        res |-> IF Len(ps) = 1 THEN "X" ELSE "O"]

RoomMove_noStatusCheck(r, pid, index) ==
  IF SymbolOf(r, pid) # r.turn THEN [room |-> r, res |-> "NotYourTurn"]
  ELSE IF ~applyMoveOk(r.board, index) THEN [room |-> r, res |-> "InvalidMove"]
  ELSE LET b == applyMove(r.board, index, r.turn)
           e == evaluate(b)
       IN IF e.kind = "win"
          THEN [room |-> [r EXCEPT !.board = b, !.status = "Finished",
                                   !.winnerLine = e.line], res |-> "win"]
          ELSE IF e.kind = "draw"
          THEN [room |-> [r EXCEPT !.board = b, !.status = "Finished"], res |-> "draw"]
          ELSE [room |-> [r EXCEPT !.board = b, !.turn = Other(r.turn)], res |-> "ongoing"]
RoomMove(r, pid, index) ==
  IF SymbolOf(r, pid) # r.turn THEN [room |-> r, res |-> "NotYourTurn"]
  ELSE IF r.status # "InProgress" THEN [room |-> r, res |-> "RoomNotInProgress"]
  ELSE IF ~applyMoveOk(r.board, index) THEN [room |-> r, res |-> "InvalidMove"]
  ELSE LET b == applyMove(r.board, index, r.turn)
           e == evaluate(b)
       IN IF e.kind = "win"
          THEN [room |-> [r EXCEPT !.board = b, !.status = "Finished",
                                   !.winnerLine = e.line], res |-> "win"]
          ELSE IF e.kind = "draw"
          THEN [room |-> [r EXCEPT !.board = b, !.status = "Finished"], res |-> "draw"]
          ELSE [room |-> [r EXCEPT !.board = b, !.turn = Other(r.turn)], res |-> "ongoing"]

RoomDisconnect(r, pid) ==
  IF r.status = "InProgress" THEN [r EXCEPT !.status = "Finished"]
  ELSE IF r.status = "WaitingForPlayers"
  THEN [r EXCEPT !.players = SelectSeq(@, LAMBDA q : q # pid)]
  ELSE r

RoomReset(r) ==
  [r EXCEPT !.board = EmptyBoard, !.winnerLine = NoLine, !.turn = "X",
            !.status = IF Len(r.players) = 2 THEN "InProgress" ELSE "WaitingForPlayers"]

\* ---- Room Registry (4.3)
getOrCreate(reg, id) ==
  IF id \in DOMAIN reg THEN reg
  ELSE [k \in DOMAIN reg \cup {id} |-> IF k = id THEN NewRoom ELSE reg[k]]

\* ---- Session Gateway (4.4, 6)
StateMsg(r) ==
  [type |-> "state",
   room |-> [board |-> r.board, players |-> r.players, turn |-> r.turn,
             winnerLine |-> r.winnerLine]]
JoinedMsg(s) == [type |-> "joined", symbol |-> s]
FullMsg == [type |-> "full"]
GameOverMsg(w, d) == [type |-> "gameOver", winner |-> w, disconnected |-> d]

\* connected sessions bound to room id under the sessions s
Members(s, id) == {d \in Clients : conn[d] /\ s[d].bound /\ s[d].roomId = id}
NoOut == [d \in Clients |-> <<>>]
ToAll(ds, msgs) == [d \in Clients |-> IF d \in ds THEN msgs ELSE <<>>]
Dropped == [reg |-> registry, sess |-> sess, out |-> NoOut, res |-> "dropped"]

HandleJoin(c, m) ==
  IF sess[c].bound THEN Dropped
  ELSE LET reg1 == getOrCreate(registry, m.roomId)
           j == RoomJoin(reg1[m.roomId], Pid(c))
       IN IF j.res = "RoomFull"
          THEN [reg |-> reg1, sess |-> sess,
                out |-> [NoOut EXCEPT ![c] = <<FullMsg>>], res |-> "full"]
          ELSE LET sess1 == [sess EXCEPT ![c] =
                               [bound |-> TRUE, roomId |-> m.roomId, symbol |-> j.res]]
                   bc == ToAll(Members(sess1, m.roomId), <<StateMsg(j.room)>>)
               IN [reg |-> [reg1 EXCEPT ![m.roomId] = j.room], sess |-> sess1,
                   out |-> [bc EXCEPT ![c] = <<JoinedMsg(j.res)>> \o @],
                   res |-> "joined"]

HandlePlay(c, m) ==
  IF ~(sess[c].bound /\ sess[c].roomId = m.roomId /\ sess[c].symbol = m.symbol)
  THEN Dropped
  ELSE LET mv == RoomMove(registry[m.roomId], Pid(c), m.index) IN
       IF mv.res \notin {"win", "draw", "ongoing"} THEN Dropped
       ELSE [reg |-> [registry EXCEPT ![m.roomId] = mv.room], sess |-> sess,
             out |-> ToAll(Members(sess, m.roomId),
                       <<StateMsg(mv.room)>> \o
                       (IF mv.res = "win" THEN <<GameOverMsg(m.symbol, FALSE)>>
                        ELSE IF mv.res = "draw" THEN <<GameOverMsg(Null, FALSE)>>
                        ELSE <<>>)),
             res |-> mv.res]

HandleReset(c, m) ==
  IF ~(sess[c].bound /\ sess[c].roomId = m.roomId) THEN Dropped
  ELSE LET r == RoomReset(registry[m.roomId]) IN
       [reg |-> [registry EXCEPT ![m.roomId] = r], sess |-> sess,
        out |-> ToAll(Members(sess, m.roomId), <<StateMsg(r)>>), res |-> "reset"]

HandleDisconnect(c) ==
  IF ~sess[c].bound THEN Dropped
  ELSE LET id == sess[c].roomId
           was == registry[id].status
           sess1 == [sess EXCEPT ![c] = NoSession]
       IN [reg |-> [registry EXCEPT ![id] = RoomDisconnect(@, Pid(c))], sess |-> sess1,
           out |-> IF was = "InProgress"
                   THEN ToAll(Members(sess1, id), <<GameOverMsg(Null, TRUE)>>)
                   ELSE NoOut,
           res |-> "disconnected"]

Handle(c, m) ==
  IF m.type = "join" THEN HandleJoin(c, m)
  ELSE IF m.type = "play" THEN HandlePlay(c, m)
  ELSE IF m.type = "reset" THEN HandleReset(c, m)
  ELSE HandleDisconnect(c)

\* ---- the two clients
Tagged(c, msgs) == [i \in 1..Len(msgs) |-> [msg |-> msgs[i], afterDisc |-> gotDisc[c]]]

\* the client's dispatch of a received message to its handler
Dispatch(cl, m) ==
  IF m.type = "joined" THEN onJoined(cl, [symbol |-> m.symbol])
  ELSE IF m.type = "full" THEN onFull(cl)
  ELSE IF m.type = "state" THEN onState(cl, m.room)
  ELSE onGameOver(cl, [winner |-> m.winner, disconnected |-> m.disconnected])

\* the two clients run the same code: of each pair of mirrored runs the one
\* in which client 1 is the first to be bound (or to leave) is explored
FirstComer(c) == c = 1 \/ sess[1].bound \/ ~conn[1]

SysSetRoomId(c) ==
  /\ conn[c] /\ FormShown(cls[c]) /\ FirstComer(c)
  /\ cls' = [cls EXCEPT ![c].roomId = SysRoomId]
  /\ UNCHANGED <<conn, inbox, toServer, sess, registry, gotDisc, lastPlay, disc, resets, cliVars>>

\* the user clicks on the board some time after the commit that first showed
\* it, when the effects of that commit have run
EffectsFlushed(cl) == cl.hSymbol = cl.symbol

\* one intent is in flight at a time: the next one is emitted when the
\* server has handled the previous one
NoneInFlight == \A d \in Clients : toServer[d] = <<>>
Emit(c, msgs) ==
  /\ conn[c] /\ NoneInFlight
  /\ toServer' = [toServer EXCEPT ![c] = @ \o Tagged(c, msgs)]

SysClickJoin(c) ==
  /\ FormShown(cls[c])
  /\ Emit(c, joinRoom(cls[c]))
  /\ UNCHANGED <<cls, conn, inbox, sess, registry, gotDisc, lastPlay, disc, resets, cliVars>>

SysClickCell(c, idx) ==
  /\ BoardShown(cls[c]) /\ EffectsFlushed(cls[c])
  /\ idx + 1 \in DOMAIN cls[c].state.board
  /\ Emit(c, play(cls[c], idx))
  /\ UNCHANGED <<cls, conn, inbox, sess, registry, gotDisc, lastPlay, disc, resets, cliVars>>

SysClickReset(c) ==
  /\ BoardShown(cls[c]) /\ EffectsFlushed(cls[c])
  /\ resets < MaxResets
  /\ Emit(c, reset(cls[c]))
  /\ resets' = resets + 1
  /\ UNCHANGED <<cls, conn, inbox, sess, registry, gotDisc, lastPlay, disc, cliVars>>

\* the socket delivers the next message to the registered handler
SysDeliver(c) ==
  /\ conn[c] /\ inbox[c] # <<>>
  /\ cls' = [cls EXCEPT ![c] = Dispatch(@, Head(inbox[c]))]
  /\ inbox' = [inbox EXCEPT ![c] = Tail(@)]
  /\ gotDisc' = [gotDisc EXCEPT ![c] =
                   @ \/ (Head(inbox[c]).type = "gameOver" /\ Head(inbox[c]).disconnected)]
  /\ UNCHANGED <<conn, toServer, sess, registry, lastPlay, disc, resets, cliVars>>

SysRunEffect(c) ==
  /\ conn[c] /\ cls[c].hSymbol # cls[c].symbol
  /\ cls' = [cls EXCEPT ![c] = effect(@)]
  /\ UNCHANGED <<conn, inbox, toServer, sess, registry, gotDisc, lastPlay, disc, resets, cliVars>>

\* the page is closed: the App instance is gone, the transport closes, the
\* server learns of it after the intents already sent, and nothing more is
\* delivered to this client
SysClose(c) ==
  /\ conn[c]
  /\ conn' = [conn EXCEPT ![c] = FALSE]
  /\ cls' = [cls EXCEPT ![c] = InitClient]
  /\ gotDisc' = [gotDisc EXCEPT ![c] = FALSE]
  /\ toServer' = [toServer EXCEPT ![c] =
                    Append(@, [msg |-> [type |-> "disconnect"], afterDisc |-> FALSE])]
  /\ inbox' = [inbox EXCEPT ![c] = <<>>]
  /\ UNCHANGED <<sess, registry, lastPlay, disc, resets, cliVars>>

\* the gateway handles the next intent of connection c to completion,
\* broadcast included
ServerHandle(c) ==
  /\ toServer[c] # <<>>
  /\ LET t == Head(toServer[c])
         h == Handle(c, t.msg)
     IN /\ \A d \in Clients : conn[d] => Len(inbox[d]) + Len(h.out[d]) <= MaxInbox
        /\ registry' = h.reg
        /\ sess' = h.sess
        \* nothing reaches a closed transport
        /\ inbox' = [d \in Clients |-> IF conn[d] THEN inbox[d] \o h.out[d] ELSE <<>>]
        \* history: the last accepted play and whether a reset followed it;
        \* whether a disconnect ended the game, a reset followed, and a play
        \* emitted after gameOver{disconnected} has been turned down since
        /\ lastPlay' =
             IF h.res \in {"win", "draw", "ongoing"}
             THEN [by |-> t.msg.symbol, ongoing |-> h.res = "ongoing", reset |-> FALSE]
             ELSE IF h.res = "reset" THEN [lastPlay EXCEPT !.reset = TRUE]
             ELSE lastPlay
        /\ disc' =
             IF h.res = "disconnected" /\ registry[sess[c].roomId].status = "InProgress"
             THEN [phase |-> "finished", rejected |-> FALSE]
             ELSE IF h.res = "reset" /\ disc.phase = "finished"
             THEN [disc EXCEPT !.phase = "reset"]
             ELSE IF t.msg.type = "play" /\ t.afterDisc /\ h.res = "dropped"
                     /\ disc.phase = "finished"
             THEN [disc EXCEPT !.rejected = TRUE]
             ELSE disc
  /\ toServer' = [toServer EXCEPT ![c] = Tail(@)]
  /\ UNCHANGED <<cls, conn, gotDisc, resets, cliVars>>

SysNext ==
  \/ \E c \in Clients : SysSetRoomId(c)
  \/ \E c \in Clients : SysClickJoin(c)
  \/ \E c \in Clients, idx \in ClickCells : SysClickCell(c, idx)
  \/ \E c \in Clients : SysClickReset(c)
  \/ \E c \in Clients : SysDeliver(c)
  \/ \E c \in Clients : SysRunEffect(c)
  \/ \E c \in Clients : SysClose(c)
  \/ \E c \in Clients : ServerHandle(c)

SysSpec == Init /\ [][SysNext]_vars

\* ---------------------------------------------------- claims under SysSpec
TheRoom == registry[SysRoomId]
\* this step is the server handling the play at the head of c's intents ...
HandlesPlay(c) ==
  /\ toServer[c] # <<>>
  /\ Head(toServer[c]).msg.type = "play"
  /\ toServer'[c] = Tail(toServer[c])
\* ... and accepting it
AcceptsPlay(c) == HandlesPlay(c) /\ registry' # registry

C6_Step ==
  \A c \in Clients : AcceptsPlay(c) =>
    /\ registry'[SysRoomId].status = "InProgress"
         => registry'[SysRoomId].turn = Other(Head(toServer[c]).msg.symbol)
    /\ lastPlay.by = Head(toServer[c]).msg.symbol => lastPlay.reset
C6_View ==
  \A c \in Clients :
    (conn[c] /\ sess[c].bound /\ inbox[c] = <<>>) =>
      /\ cls[c].state.turn = registry[sess[c].roomId].turn
      /\ cls[c].state.board = registry[sess[c].roomId].board
HandlesDisconnect(c) ==
  /\ toServer[c] # <<>>
  /\ Head(toServer[c]).msg.type = "disconnect"
  /\ toServer'[c] = Tail(toServer[c])
C7_Step ==
  \A c \in Clients :
    /\ (HandlesPlay(c) /\ Head(toServer[c]).afterDisc /\ disc.phase = "finished") =>
         registry' = registry /\ inbox' = inbox
    /\ (HandlesDisconnect(c) /\ sess[c].bound /\ TheRoom.status = "InProgress") =>
         registry'[SysRoomId].status = "Finished"
====
